---- MODULE Spec2Model ----
(***************************************************************************)
(* Wallpaper lifecycle and scheduling engine of wallp: the persisted       *)
(* AppData record (src/src/config.rs), the navigation and fetch            *)
(* operations (src/src/manager.rs), the scheduler tick                     *)
(* (src/src/scheduler.rs) and the threads that run them                    *)
(* (src/src/tray.rs).                                                      *)
(*                                                                         *)
(* Time is counted in minutes.  An RFC 3339 string is <<"ts", t>> when it  *)
(* is well formed and <<"bad">> otherwise.  Option<T> is a sequence of     *)
(* length 0 (None) or 1 (Some).  The display metadata of a Wallpaper       *)
(* (title, author, url) is never read by these operations and is left out. *)
(***************************************************************************)
EXTENDS Integers, Sequences, FiniteSets, TLC

\* ------------------------------------------------------------------ bounds
MaxHist == 4
MaxHistThreads == 2
MaxTime == 2880
MaxRecHist == 2
MaxCleanHist == 3

\* ------------------------------------------------------- program constants
MIN_INTERVAL_MINUTES == 30
DefaultIntervalMinutes == 1440
DefaultRetentionDays == 7
DayMinutes == 1440

\* The clock moves in steps of two days, so that an entry can become older
\* than one retention day and one refresh interval between two readings.
ClockStep == 2 * DayMinutes

\* The scheduler thread and one thread running a manual command.
Procs == {"sched", "user"}

\* The ids the provider hands out
PhotoIds == {"a", "b"}
AccessKeys == {"key"}

\* The answers typed at the interval prompt: the number part, if it is one,
\* and the character after it
IntervalChoices ==
    {[num |-> <<1>>, suffix |-> "d"], [num |-> <<29>>, suffix |-> "m"],
     [num |-> <<0>>, suffix |-> "h"], [num |-> <<5>>, suffix |-> ""],
     [num |-> <<>>, suffix |-> ""], [num |-> <<1>>, suffix |-> "x"],
     [num |-> <<>>, suffix |-> "d"]}
RetentionChoices == {<<0>>, <<1>>}

\* The indices given to the set command: the first entry, a later one, and
\* one past every history explored
IndexChoices == {0, 2, MaxHist + 1}

NoneOpt == <<>>
Some(x) == <<x>>

\* ---------------------------------------------------------------- helpers
\* usize::saturating_sub
saturating_sub(a, b) == IF a >= b THEN a - b ELSE 0

\* chrono to_rfc3339 / DateTime::parse_from_rfc3339
to_rfc3339(t) == <<"ts", t>>
parse_from_rfc3339(s) ==
    IF Len(s) = 2 /\ s[1] = "ts"
    THEN [ok |-> TRUE, val |-> s[2]]
    ELSE [ok |-> FALSE, val |-> 0]

\* format!("wallpaper_{}.jpg", photo.id)
Filename(id) == <<"wallpaper_", id, ".jpg">>
Filenames == {Filename(i) : i \in PhotoIds}

\* Config::default + State::default + empty history, built at time t
DefaultAppData(t) ==
    [unsplash_access_key |-> "",
     interval_minutes |-> DefaultIntervalMinutes,
     retention_days |-> Some(DefaultRetentionDays),
     is_running |-> TRUE,
     next_run_at |-> to_rfc3339(t),
     last_run_at |-> to_rfc3339(t),
     current_wallpaper_id |-> NoneOpt,
     current_history_index |-> 0,
     history |-> <<>>]

\* wallp.json: absent, truncated by a write in progress, holding a record, or
\* holding the start of one document followed by the end of a longer one
AbsentFile == [st |-> "absent", content |-> <<>>]
TruncatedFile == [st |-> "truncated", content |-> <<>>]
SplicedFile == [st |-> "spliced", content |-> <<>>]
FullFile(d) == [st |-> "full", content |-> <<d>>]

\* AppData::load
load(f, t) ==
    IF f.st = "absent" THEN [ok |-> TRUE, data |-> DefaultAppData(t)]
    ELSE IF f.st = "full" THEN [ok |-> TRUE, data |-> f.content[1]]
    ELSE [ok |-> FALSE, data |-> DefaultAppData(t)]

\* AppData::load().unwrap_or_default() of the setup wizard
load_or_default(f, t) == load(f, t).data

\* A thread that runs no operation
IdleThread ==
    [pc |-> "idle", op |-> "none", orig |-> DefaultAppData(0),
     local |-> DefaultAppData(0), photo |-> "", called |-> FALSE,
     applied |-> NoneOpt, touched |-> FALSE, removed |-> 0,
     prior |-> NoneOpt, arg |-> 0, wrote |-> FALSE, corrupt |-> FALSE,
     at |-> 0]

\* No operation returned in the last step
NoEvent ==
    [proc |-> "none", op |-> "none", res |-> "none", orig |-> DefaultAppData(0),
     data |-> DefaultAppData(0), called |-> FALSE, applied |-> NoneOpt,
     touched |-> FALSE, saved |-> FALSE, removed |-> 0,
     prior |-> NoneOpt, arg |-> 0, wrote |-> FALSE, corrupt |-> FALSE,
     at |-> 0, was |-> AbsentFile, seq |-> 0, current |-> NoneOpt, dir |-> [f \in Filenames |-> "none"], warned |-> 0]

VARIABLES
    file,      \* wallp.json
    files,     \* wallpapers directory: filename -> "none" | "partial" | "full"
    now,       \* Utc::now()
    thread,    \* each thread's operation: its position (pc), the record it
               \* loaded (orig), its app_data (local), the candidate photo,
               \* whether it has sent a provider request (called), the path it
               \* handed to wallpaper::set_from_path (applied), whether it has
               \* opened wallp.json for writing (touched), the count returned
               \* by the cleanup (removed), the record loaded by the Prev
               \* that succeeded right before this operation or, for a
               \* tick, by the manual replay that succeeded right before it
               \* (prior), the index given to the set command (arg), whether
               \* it has created a file in the wallpapers directory (wrote),
               \* whether the load of the setup wizard failed (corrupt),
               \* the time at which it began (at)
    ev         \* the operation that returned in the last step, with its
               \* result; for a cleanup also the directory it found (dir) and
               \* the number of warnings it printed for failed removals
               \* (warned); for a load followed by a save also the
               \* wallp.json it found (was); a tick that returns right
               \* after another tick has the other value of seq; for the
               \* current-wallpaper query the entry it returned (current)

vars == <<file, files, now, thread, ev>>

Init ==
    /\ file = AbsentFile
    /\ files = [f \in Filenames |-> "none"]
    /\ now = 0
    /\ thread = [p \in Procs |-> IdleThread]
    /\ ev = NoEvent

\* The operation of p goes on in state t.
Continue(p, t) ==
    /\ thread' = [thread EXCEPT ![p] = t]
    /\ ev' = NoEvent

\* The operation of p, in state t, returns r to its caller.
Return(p, t, r, sv) ==
    /\ thread' = [thread EXCEPT ![p] = IdleThread]
    /\ ev' = [NoEvent EXCEPT
                !.proc = p, !.op = t.op, !.res = r, !.orig = t.orig,
                !.data = t.local, !.called = t.called, !.applied = t.applied,
                !.touched = t.touched, !.saved = sv, !.removed = t.removed,
                !.prior = t.prior, !.arg = t.arg, !.wrote = t.wrote,
                !.corrupt = t.corrupt, !.at = t.at,
                !.seq = IF t.op = "tick" /\ ev.op = "tick"
                        THEN 1 - ev.seq ELSE 0]

\* A fresh operation o that has loaded the record d
Begin(o, d) ==
    [IdleThread EXCEPT !.op = o, !.orig = d, !.local = d, !.at = now]

\* The wall clock advances.
AdvanceClock ==
    /\ now + ClockStep <= MaxTime
    /\ now' = now + ClockStep
    /\ ev' = NoEvent
    /\ UNCHANGED <<file, files, thread>>

\* AppData::save up to the point where fs::write has truncated wallp.json;
\* an error before that point (create_dir_all, serialisation) returns early.
SaveBegin(p, t) ==
    \/ /\ file' = TruncatedFile
       /\ Continue(p, [t EXCEPT !.pc = "write", !.touched = TRUE])
    \/ /\ file' = file
       /\ Return(p, t, "IoErr", FALSE)

\* What wallp.json holds after the bytes of d are written from offset 0 into
\* f: fs::write has opened f with truncation before, so f holds a record only
\* when another thread has written it since; what that record has beyond the
\* length of d stays.  A document with more history entries is the longer one.
WriteOver(f, d) ==
    IF f.st = "full" /\ Len(f.content[1].history) > Len(d.history)
    THEN SplicedFile
    ELSE FullFile(d)

\* fs::write completes, or fails and leaves what is there.
Write(p) ==
    /\ thread[p].pc = "write"
    /\ \/ /\ file' = WriteOver(file, thread[p].local)
          /\ Return(p, thread[p], "Ok", TRUE)
       \/ /\ file' = file
          /\ Return(p, thread[p], "IoErr", FALSE)
    /\ UNCHANGED <<files, now>>

\* The operation that returned in the last step is a manual Next that
\* replayed a cached entry, or a manual Prev; it succeeded and the clock has
\* not advanced since it began.
ManualReplayReturned ==
    /\ ev.proc = "user"
    /\ ev.op \in {"next", "prev"}
    /\ ev.res = "Ok"
    /\ ~ev.called
    /\ ev.at = now

\* check_and_run without the test of the access key
SchedTick_NoKeyTest ==
    /\ thread["sched"].pc = "idle"
    /\ LET l == load(file, now)
           d == l.data
           t == [Begin("tick", d) EXCEPT
                   !.prior = IF ManualReplayReturned THEN Some(ev.orig)
                             ELSE NoneOpt]
           next_run == parse_from_rfc3339(d.next_run_at)
       IN IF ~l.ok THEN Return("sched", t, "LoadErr", FALSE)
          ELSE IF FALSE THEN Return("sched", t, "Ok", FALSE)
          ELSE IF ~next_run.ok THEN Return("sched", t, "ParseErr", FALSE)
          ELSE IF now >= next_run.val
               THEN Continue("sched", [t EXCEPT !.pc = "next"])
               ELSE Return("sched", t, "Ok", FALSE)
    /\ UNCHANGED <<file, files, now>>

\* check_and_run in a loop that ends at the first tick that fails
SchedTick_StopsAfterError ==
    /\ thread["sched"].pc = "idle"
    /\ ~(ev.op = "tick" /\ ev.res # "Ok")
    /\ LET l == load(file, now)
           d == l.data
           t == [Begin("tick", d) EXCEPT
                   !.prior = IF ManualReplayReturned THEN Some(ev.orig)
                             ELSE NoneOpt]
           next_run == parse_from_rfc3339(d.next_run_at)
       IN IF ~l.ok THEN Return("sched", t, "LoadErr", FALSE)
          ELSE IF d.unsplash_access_key = "" THEN Return("sched", t, "Ok", FALSE)
          ELSE IF ~next_run.ok THEN Return("sched", t, "ParseErr", FALSE)
          ELSE IF now >= next_run.val
               THEN Continue("sched", [t EXCEPT !.pc = "next"])
               ELSE Return("sched", t, "Ok", FALSE)
    /\ UNCHANGED <<file, files, now>>

\* check_and_run that does nothing while is_running is false
SchedTick_ChecksIsRunning ==
    /\ thread["sched"].pc = "idle"
    /\ LET l == load(file, now)
           d == l.data
           t == [Begin("tick", d) EXCEPT
                   !.prior = IF ManualReplayReturned THEN Some(ev.orig)
                             ELSE NoneOpt]
           next_run == parse_from_rfc3339(d.next_run_at)
       IN IF ~l.ok THEN Return("sched", t, "LoadErr", FALSE)
          ELSE IF d.unsplash_access_key = "" THEN Return("sched", t, "Ok", FALSE)
          ELSE IF ~d.is_running THEN Return("sched", t, "Ok", FALSE)
          ELSE IF ~next_run.ok THEN Return("sched", t, "ParseErr", FALSE)
          ELSE IF now >= next_run.val
               THEN Continue("sched", [t EXCEPT !.pc = "next"])
               ELSE Return("sched", t, "Ok", FALSE)
    /\ UNCHANGED <<file, files, now>>

\* check_and_run that takes every tick as due
SchedTick_AlwaysDue ==
    /\ thread["sched"].pc = "idle"
    /\ LET l == load(file, now)
           d == l.data
           t == [Begin("tick", d) EXCEPT
                   !.prior = IF ManualReplayReturned THEN Some(ev.orig)
                             ELSE NoneOpt]
           next_run == parse_from_rfc3339(d.next_run_at)
       IN IF ~l.ok THEN Return("sched", t, "LoadErr", FALSE)
          ELSE IF d.unsplash_access_key = "" THEN Return("sched", t, "Ok", FALSE)
          ELSE IF ~next_run.ok THEN Return("sched", t, "ParseErr", FALSE)
          ELSE IF TRUE
               THEN Continue("sched", [t EXCEPT !.pc = "next"])
               ELSE Return("sched", t, "Ok", FALSE)
    /\ UNCHANGED <<file, files, now>>

\* One iteration of the loop of scheduler::start_background_task: the
\* interval fires and check_and_run runs up to the call of manager::next.
SchedTick ==
    /\ thread["sched"].pc = "idle"
    /\ LET l == load(file, now)
           d == l.data
           t == [Begin("tick", d) EXCEPT
                   !.prior = IF ManualReplayReturned THEN Some(ev.orig)
                             ELSE NoneOpt]
           next_run == parse_from_rfc3339(d.next_run_at)
       IN IF ~l.ok THEN Return("sched", t, "LoadErr", FALSE)
          ELSE IF d.unsplash_access_key = "" THEN Return("sched", t, "Ok", FALSE)
          ELSE IF ~next_run.ok THEN Return("sched", t, "ParseErr", FALSE)
          ELSE IF now >= next_run.val
               THEN Continue("sched", [t EXCEPT !.pc = "next"])
               ELSE Return("sched", t, "Ok", FALSE)
    /\ UNCHANGED <<file, files, now>>

\* CanGoForward without the "- 1"
CanGoForward_NoSub(d) ==
    d.current_history_index < Len(d.history)

\* The cursor test of manager::next
CanGoForward(d) ==
    d.current_history_index < saturating_sub(Len(d.history), 1)

\* manager::next: load and the choice between replay and fetch
NextLoad(p) ==
    /\ \/ p = "user" /\ thread[p].pc = "idle"
       \/ p = "sched" /\ thread[p].pc = "next"
    /\ LET l == load(file, now)
           d == l.data
           t == IF p = "sched"
                THEN [Begin("tick", d) EXCEPT !.prior = thread[p].prior,
                                              !.at = thread[p].at]
                ELSE [Begin("next", d) EXCEPT
                        !.prior = IF ev.op = "prev" /\ ev.res = "Ok"
                                  THEN Some(ev.orig) ELSE NoneOpt]
       IN IF ~l.ok THEN Return(p, t, "LoadErr", FALSE)
          ELSE IF CanGoForward(d)
               THEN Continue(p, [t EXCEPT !.pc = "replay"])
               ELSE /\ Len(d.history) < MaxHist
                    /\ Continue(p, [t EXCEPT !.pc = "fetch"])
    /\ UNCHANGED <<file, files, now>>

\* set_wallpaper_from_history without the path.exists() test
set_wallpaper_from_history_NoExistsCheck(w, fs, os_ok) ==
    IF ~os_ok THEN "SetErr" ELSE "Ok"

\* manager::set_wallpaper_from_history: the file is looked up in the
\* directory, then the OS call succeeds or fails.
set_wallpaper_from_history(w, fs, os_ok) ==
    IF fs[w.filename] = "none" THEN "MissingFile"
    ELSE IF ~os_ok THEN "SetErr"
    ELSE "Ok"

\* ReplayData with the cursor moved by two
ReplayData_SkipsOne(d, t) ==
    [d EXCEPT !.current_history_index = d.current_history_index + 2,
              !.next_run_at = to_rfc3339(t + d.interval_minutes)]

\* ReplayData that also stamps last_run_at
ReplayData_StampsLastRun(d, t) ==
    [d EXCEPT !.current_history_index = d.current_history_index + 1,
              !.last_run_at = to_rfc3339(t),
              !.next_run_at = to_rfc3339(t + d.interval_minutes)]

\* The record manager::next saves after a replay at time t
ReplayData(d, t) ==
    [d EXCEPT !.current_history_index = d.current_history_index + 1,
              !.next_run_at = to_rfc3339(t + d.interval_minutes)]

\* PrevData that puts next_run_at off by one interval
PrevData_PushesNextRun(d) ==
    [d EXCEPT !.current_history_index = d.current_history_index - 1,
              !.next_run_at =
                  to_rfc3339(parse_from_rfc3339(d.next_run_at).val
                               + d.interval_minutes)]

\* PrevData with the cursor moved by two
PrevData_ByTwo(d) ==
    [d EXCEPT !.current_history_index = d.current_history_index - 2]

\* The record manager::prev saves
PrevData(d) ==
    [d EXCEPT !.current_history_index = d.current_history_index - 1]

\* The tail of manager::next (replay) and manager::prev: index the history
\* with the moved cursor, set the wallpaper, save.
ApplyFromHistory(p, d) ==
    LET t == thread[p]
        i == d.current_history_index
    IN IF i < 0 \/ i >= Len(d.history)
       THEN /\ Return(p, t, "Panic", FALSE)
            /\ file' = file
       ELSE \E os_ok \in BOOLEAN :
              LET w == d.history[i + 1]
                  r == set_wallpaper_from_history(w, files, os_ok)
              IN IF r = "MissingFile"
                 THEN /\ Return(p, t, r, FALSE)
                      /\ file' = file
                 ELSE IF r = "SetErr"
                 THEN /\ Return(p, [t EXCEPT !.applied = Some(w.filename)], r, FALSE)
                      /\ file' = file
                 ELSE SaveBegin(p, [t EXCEPT !.applied = Some(w.filename), !.local = d])

\* manager::next, replay branch
NextReplay(p) ==
    /\ thread[p].pc = "replay"
    /\ ApplyFromHistory(p, ReplayData(thread[p].local, now))
    /\ UNCHANGED <<files, now>>

\* CanGoBack with ">=" for ">"
CanGoBack_Always(d) == d.current_history_index >= 0

\* The cursor test of manager::prev
CanGoBack(d) == d.current_history_index > 0

\* manager::prev: load and the cursor test
PrevLoad(p) ==
    /\ p = "user"
    /\ thread[p].pc = "idle"
    /\ LET l == load(file, now)
           d == l.data
           t == Begin("prev", d)
       IN IF ~l.ok THEN Return(p, t, "LoadErr", FALSE)
          ELSE IF CanGoBack(d)
               THEN Continue(p, [t EXCEPT !.pc = "prev"])
               ELSE Return(p, t, "NoPrev", FALSE)
    /\ UNCHANGED <<file, files, now>>

\* manager::prev, cursor > 0
PrevApply(p) ==
    /\ thread[p].pc = "prev"
    /\ ApplyFromHistory(p, PrevData(thread[p].local))
    /\ UNCHANGED <<files, now>>

\* manager::new: load, then fetch_and_set_new
NewLoad(p) ==
    /\ p = "user"
    /\ thread[p].pc = "idle"
    /\ LET l == load(file, now)
           d == l.data
           t == Begin("new", d)
       IN IF ~l.ok THEN Return(p, t, "LoadErr", FALSE)
          ELSE /\ Len(d.history) < MaxHist
               /\ Continue(p, [t EXCEPT !.pc = "fetch"])
    /\ UNCHANGED <<file, files, now>>

\* FetchRandom without the credential test
FetchRandom_NoKeyTest(p) ==
    /\ thread[p].pc = "fetch"
    /\ LET t == thread[p]
       IN \/ Return(p, [t EXCEPT !.called = TRUE], "ProviderErr", FALSE)
          \/ \E id \in PhotoIds :
               Continue(p, [t EXCEPT !.called = TRUE, !.photo = id,
                                     !.pc = "download"])
    /\ UNCHANGED <<file, files, now>>

\* fetch_and_set_new: the credential test and UnsplashClient::fetch_random
FetchRandom(p) ==
    /\ thread[p].pc = "fetch"
    /\ LET t == thread[p]
       IN IF t.local.unsplash_access_key = ""
          THEN Return(p, t, "MissingKey", FALSE)
          ELSE \/ Return(p, [t EXCEPT !.called = TRUE], "ProviderErr", FALSE)
               \/ \E id \in PhotoIds :
                    Continue(p, [t EXCEPT !.called = TRUE, !.photo = id,
                                          !.pc = "download"])
    /\ UNCHANGED <<file, files, now>>

\* DownloadImage that reports success after a failed write
DownloadImage_IgnoresWriteError(p) ==
    /\ thread[p].pc = "download"
    /\ LET t == thread[p]
           fname == Filename(t.photo)
       IN \/ /\ Return(p, t, "DownloadErr", FALSE)
             /\ UNCHANGED files
          \/ /\ Continue(p, [t EXCEPT !.pc = "commit", !.wrote = TRUE])
             /\ files' = [files EXCEPT ![fname] = "partial"]
          \/ /\ Continue(p, [t EXCEPT !.pc = "commit", !.wrote = TRUE])
             /\ files' = [files EXCEPT ![fname] = "full"]
    /\ UNCHANGED <<file, now>>

\* UnsplashClient::download_image: the request fails before the file is
\* created, the write fails after File::create, or the file is written.
DownloadImage(p) ==
    /\ thread[p].pc = "download"
    /\ LET t == thread[p]
           fname == Filename(t.photo)
       IN \/ /\ Return(p, t, "DownloadErr", FALSE)
             /\ UNCHANGED files
          \/ /\ Return(p, [t EXCEPT !.wrote = TRUE], "DownloadErr", FALSE)
             /\ files' = [files EXCEPT ![fname] = "partial"]
          \/ /\ Continue(p, [t EXCEPT !.pc = "commit", !.wrote = TRUE])
             /\ files' = [files EXCEPT ![fname] = "full"]
    /\ UNCHANGED <<file, now>>

\* PushNew that applies a retention of 0: only the new entry is kept
PushNew_KeepsNewestOnly(d, id, t_applied, t_last, t_next) ==
    LET e == [id |-> id, filename |-> Filename(id),
              applied_at |-> to_rfc3339(t_applied)]
        h == IF d.retention_days = Some(0) THEN <<e>> ELSE Append(d.history, e)
    IN [d EXCEPT
          !.history = h,
          !.current_history_index = Len(h) - 1,
          !.current_wallpaper_id = Some(id),
          !.last_run_at = to_rfc3339(t_last),
          !.next_run_at = to_rfc3339(t_next + d.interval_minutes)]

\* PushNew with the cursor set to the new length
PushNew_IndexIsLen(d, id, t_applied, t_last, t_next) ==
    LET h == Append(d.history,
                    [id |-> id, filename |-> Filename(id),
                     applied_at |-> to_rfc3339(t_applied)])
    IN [d EXCEPT
          !.history = h,
          !.current_history_index = Len(h),
          !.current_wallpaper_id = Some(id),
          !.last_run_at = to_rfc3339(t_last),
          !.next_run_at = to_rfc3339(t_next + d.interval_minutes)]

\* PushNew with the entries after the cursor dropped before the push
PushNew_Truncates(d, id, t_applied, t_last, t_next) ==
    LET kept == IF d.current_history_index < Len(d.history)
                THEN SubSeq(d.history, 1, d.current_history_index + 1)
                ELSE d.history
        h == Append(kept,
                    [id |-> id, filename |-> Filename(id),
                     applied_at |-> to_rfc3339(t_applied)])
    IN [d EXCEPT
          !.history = h,
          !.current_history_index = Len(h) - 1,
          !.current_wallpaper_id = Some(id),
          !.last_run_at = to_rfc3339(t_last),
          !.next_run_at = to_rfc3339(t_next + d.interval_minutes)]

\* fetch_and_set_new after wallpaper::set_from_path: push the entry, move the
\* cursor, set the current id and the run times.  Utc::now() is read three
\* times: for applied_at, for last_run_at and for the next run.
PushNew(d, id, t_applied, t_last, t_next) ==
    LET h == Append(d.history,
                    [id |-> id, filename |-> Filename(id),
                     applied_at |-> to_rfc3339(t_applied)])
    IN [d EXCEPT
          !.history = h,
          !.current_history_index = Len(h) - 1,
          !.current_wallpaper_id = Some(id),
          !.last_run_at = to_rfc3339(t_last),
          !.next_run_at = to_rfc3339(t_next + d.interval_minutes)]

\* The values Utc::now() can return from time t on
ClockReadings(t) == {t} \cup {u \in {t + ClockStep} : u <= MaxTime}

\* fetch_and_set_new after the download: set the wallpaper (an error
\* returns), then push and save.  The clock may advance between two readings.
SetAndCommit(p) ==
    /\ thread[p].pc = "commit"
    /\ LET t == [thread[p] EXCEPT !.applied = Some(Filename(thread[p].photo))]
       IN \E os_ok \in BOOLEAN :
            IF ~os_ok
            THEN /\ Return(p, t, "SetErr", FALSE)
                 /\ file' = file
                 /\ now' = now
            ELSE \E t_applied \in ClockReadings(now) :
                 \E t_last \in ClockReadings(t_applied) :
                 \E t_next \in ClockReadings(t_last) :
                   /\ now' = t_next
                   /\ SaveBegin(p, [t EXCEPT !.local =
                          PushNew(t.local, t.photo, t_applied, t_last, t_next)])
    /\ UNCHANGED files

\* get_current_wallpaper that returns the newest entry
get_current_wallpaper_Newest(d) ==
    IF d.history = <<>> THEN NoneOpt
    ELSE Some(d.history[Len(d.history)])

\* The value of manager::get_current_wallpaper for the loaded record d:
\* Vec::get gives None for an index past the end.
get_current_wallpaper(d) ==
    IF d.history = <<>> THEN NoneOpt
    ELSE IF d.current_history_index < Len(d.history)
         THEN Some(d.history[d.current_history_index + 1])
         ELSE NoneOpt

\* manager::get_current_wallpaper: load the record and answer from it
GetCurrent(p) ==
    /\ p = "user"
    /\ thread[p].pc = "idle"
    /\ LET l == load(file, now)
           e == [NoEvent EXCEPT !.proc = p, !.op = "current", !.orig = l.data,
                                !.data = l.data, !.at = now]
       IN ev' = IF l.ok
                THEN [e EXCEPT !.res = "Ok",
                               !.current = get_current_wallpaper(l.data)]
                ELSE [e EXCEPT !.res = "LoadErr"]
    /\ UNCHANGED <<file, files, now, thread>>

\* cli::setup_wizard: load the record, or the defaults when it cannot be read
SetupLoad(p) ==
    /\ p = "user"
    /\ thread[p].pc = "idle"
    /\ Continue(p, [Begin("setup", load_or_default(file, now)) EXCEPT
                       !.pc = "setup", !.corrupt = ~load(file, now).ok])
    /\ UNCHANGED <<file, files, now>>

\* cli::parse_interval: a number of minutes, or a number followed by d, h
\* or m
parse_interval(input) ==
    IF input.suffix = "" /\ input.num # <<>> THEN [ok |-> TRUE, val |-> input.num[1]]
    ELSE IF input.num = <<>> THEN [ok |-> FALSE, val |-> 0]
    ELSE IF input.suffix = "d" THEN [ok |-> TRUE, val |-> input.num[1] * 24 * 60]
    ELSE IF input.suffix = "h" THEN [ok |-> TRUE, val |-> input.num[1] * 60]
    ELSE IF input.suffix = "m" THEN [ok |-> TRUE, val |-> input.num[1]]
    ELSE [ok |-> FALSE, val |-> 0]

\* setup_wizard that takes any interval that parses
SetupSave_NoMinimum(p) ==
    /\ thread[p].pc = "setup"
    /\ \E k \in AccessKeys, input \in IntervalChoices, rd \in RetentionChoices :
         /\ parse_interval(input).ok
         /\ SaveBegin(p, [thread[p] EXCEPT
                            !.local.unsplash_access_key = k,
                            !.local.interval_minutes = parse_interval(input).val,
                            !.local.retention_days = rd])
    /\ UNCHANGED <<files, now>>

\* cli::setup_wizard: the interval prompt is repeated until the answer parses
\* and is at least MIN_INTERVAL_MINUTES; the answers are stored in the config
\* and saved.
SetupSave(p) ==
    /\ thread[p].pc = "setup"
    /\ \E k \in AccessKeys, input \in IntervalChoices, rd \in RetentionChoices :
         /\ parse_interval(input).ok
         /\ parse_interval(input).val >= MIN_INTERVAL_MINUTES
         /\ SaveBegin(p, [thread[p] EXCEPT
                            !.local.unsplash_access_key = k,
                            !.local.interval_minutes = parse_interval(input).val,
                            !.local.retention_days = rd])
    /\ UNCHANGED <<files, now>>

\* RemoveFiles that gives up at the first removal that fails
RECURSIVE RemoveFiles_StopsAtFailure(_, _, _, _, _)
RemoveFiles_StopsAtFailure(ws, fs, fail, cnt, warned) ==
    IF ws = <<>> THEN [files |-> fs, removed_count |-> cnt, warnings |-> warned]
    ELSE LET w == Head(ws)
         IN IF fs[w.filename] = "none"
            THEN RemoveFiles_StopsAtFailure(Tail(ws), fs, fail, cnt, warned)
            ELSE IF w.filename \in fail
            THEN [files |-> fs, removed_count |-> cnt, warnings |-> warned + 1]
            ELSE RemoveFiles_StopsAtFailure(Tail(ws),
                                            [fs EXCEPT ![w.filename] = "none"],
                                            fail, cnt + 1, warned)

\* The loop bodies of cleanup_old_wallpapers_in: the backing file of each
\* removed entry is deleted when it exists; fs::remove_file fails for the
\* files in fail, and each failure prints a warning.
RECURSIVE RemoveFiles(_, _, _, _, _)
RemoveFiles(ws, fs, fail, cnt, warned) ==
    IF ws = <<>> THEN [files |-> fs, removed_count |-> cnt, warnings |-> warned]
    ELSE LET w == Head(ws)
         IN IF fs[w.filename] = "none"
            THEN RemoveFiles(Tail(ws), fs, fail, cnt, warned)
            ELSE IF w.filename \in fail
            THEN RemoveFiles(Tail(ws), fs, fail, cnt, warned + 1)
            ELSE RemoveFiles(Tail(ws), [fs EXCEPT ![w.filename] = "none"],
                             fail, cnt + 1, warned)

\* Stale with "<=" for "<"
Stale_NotStrict(w, cutoff_date) ==
    LET applied_at == parse_from_rfc3339(w.applied_at)
    IN applied_at.ok /\ applied_at.val <= cutoff_date

\* The retain closure of cleanup_old_wallpapers_in
Stale(w, cutoff_date) ==
    LET applied_at == parse_from_rfc3339(w.applied_at)
    IN applied_at.ok /\ applied_at.val < cutoff_date

\* The index adjustment at the end of cleanup_old_wallpapers_in
ClampIndex(d) ==
    IF d.current_history_index >= Len(d.history)
    THEN [d EXCEPT !.current_history_index = saturating_sub(Len(d.history), 1)]
    ELSE d

\* cleanup_old_wallpapers_in with no retention read as retention 0
cleanup_old_wallpapers_in_NoneIsZero(d, fs, t, fail) ==
    LET retention == IF d.retention_days = NoneOpt THEN 0 ELSE d.retention_days[1]
        n == Len(d.history)
        cutoff_date == t - retention * DayMinutes
        to_remove == IF retention = 0
                     THEN IF n > 1 THEN SubSeq(d.history, 1, n - 1) ELSE <<>>
                     ELSE SelectSeq(d.history, LAMBDA w : Stale(w, cutoff_date))
        kept == IF retention = 0
                THEN IF n > 1 THEN SubSeq(d.history, n, n) ELSE d.history
                ELSE SelectSeq(d.history, LAMBDA w : ~Stale(w, cutoff_date))
        rf == RemoveFiles(to_remove, fs, fail, 0, 0)
    IN [data |-> ClampIndex([d EXCEPT !.history = kept]),
        files |-> rf.files,
        removed_count |-> rf.removed_count,
        warnings |-> rf.warnings]

\* cleanup_old_wallpapers_in that removes the file of every entry, kept or not
cleanup_old_wallpapers_in_RemovesEveryFile(d, fs, t, fail) ==
    IF d.retention_days = NoneOpt
    THEN [data |-> d, files |-> fs, removed_count |-> 0, warnings |-> 0]
    ELSE LET retention == d.retention_days[1]
             n == Len(d.history)
             cutoff_date == t - retention * DayMinutes
             kept == IF retention = 0
                     THEN IF n > 1 THEN SubSeq(d.history, n, n) ELSE d.history
                     ELSE SelectSeq(d.history, LAMBDA w : ~Stale(w, cutoff_date))
             rf == RemoveFiles(d.history, fs, fail, 0, 0)
         IN [data |-> ClampIndex([d EXCEPT !.history = kept]),
             files |-> rf.files,
             removed_count |-> rf.removed_count,
             warnings |-> rf.warnings]

\* AppData::cleanup_old_wallpapers_in
cleanup_old_wallpapers_in(d, fs, t, fail) ==
    IF d.retention_days = NoneOpt
    THEN [data |-> d, files |-> fs, removed_count |-> 0, warnings |-> 0]
    ELSE LET retention == d.retention_days[1]
             n == Len(d.history)
             cutoff_date == t - retention * DayMinutes
             to_remove == IF retention = 0
                          THEN IF n > 1 THEN SubSeq(d.history, 1, n - 1) ELSE <<>>
                          ELSE SelectSeq(d.history, LAMBDA w : Stale(w, cutoff_date))
             kept == IF retention = 0
                     THEN IF n > 1 THEN SubSeq(d.history, n, n) ELSE d.history
                     ELSE SelectSeq(d.history, LAMBDA w : ~Stale(w, cutoff_date))
             rf == RemoveFiles(to_remove, fs, fail, 0, 0)
         IN [data |-> ClampIndex([d EXCEPT !.history = kept]),
             files |-> rf.files,
             removed_count |-> rf.removed_count,
             warnings |-> rf.warnings]

\* The cleanup operation: load the record
PruneLoad(p) ==
    /\ p = "user"
    /\ thread[p].pc = "idle"
    /\ LET l == load(file, now)
           t == Begin("prune", l.data)
       IN IF ~l.ok THEN Return(p, t, "LoadErr", FALSE)
          ELSE Continue(p, [t EXCEPT !.pc = "prune"])
    /\ UNCHANGED <<file, files, now>>

\* The cleanup operation: apply the retention policy and save
PruneApply(p) ==
    /\ thread[p].pc = "prune"
    /\ \E fail \in SUBSET Filenames :
         LET c == cleanup_old_wallpapers_in(thread[p].local, files, now, fail)
         IN /\ files' = c.files
            /\ SaveBegin(p, [thread[p] EXCEPT !.local = c.data,
                                              !.removed = c.removed_count])
    /\ UNCHANGED now

\* cli::handle_command, Commands::Set: load the record, report an empty
\* history, otherwise hand the index to manager::set_by_index.
SetLoad(p) ==
    /\ p = "user"
    /\ thread[p].pc = "idle"
    /\ \E i \in IndexChoices :
         LET l == load(file, now)
             d == l.data
             t == [Begin("set", d) EXCEPT !.arg = i]
         IN IF ~l.ok THEN Return(p, t, "LoadErr", FALSE)
            ELSE IF Len(d.history) = 0 THEN Return(p, t, "Ok", FALSE)
            ELSE Continue(p, [t EXCEPT !.pc = "set"])
    /\ UNCHANGED <<file, files, now>>

\* The validity test of SetByIndex(i)
IndexInRange(d, i) == 0 <= i /\ i < Len(d.history)

\* The record SetByIndex(i) saves
SetData(d, i) == [d EXCEPT !.current_history_index = i]

\* manager::set_by_index: an index out of range is reported, an index in
\* range becomes the cursor and its entry is applied and saved.
SetByIndex(p) ==
    /\ thread[p].pc = "set"
    /\ LET t == thread[p]
       IN IF ~IndexInRange(t.local, t.arg)
          THEN /\ Return(p, t, "IndexOutOfRange", FALSE)
               /\ file' = file
          ELSE ApplyFromHistory(p, SetData(t.local, t.arg))
    /\ UNCHANGED <<files, now>>

\* AppData::cleanup_old_wallpapers_in applied to the record wallp.json holds;
\* the result stays in memory.
Cleanup(p) ==
    /\ p = "user"
    /\ thread[p].pc = "idle"
    /\ file.st = "full"
    /\ \E fail \in SUBSET Filenames :
         LET d == file.content[1]
             c == cleanup_old_wallpapers_in(d, files, now, fail)
         IN /\ files' = c.files
            /\ ev' = [NoEvent EXCEPT
                        !.proc = p, !.op = "cleanup", !.res = "Ok", !.orig = d,
                        !.data = c.data, !.removed = c.removed_count,
                        !.dir = files, !.warned = c.warnings]
    /\ UNCHANGED <<file, now, thread>>

\* The process dies: every running operation stops where it is.
Crash ==
    /\ \E p \in Procs : thread[p].pc # "idle"
    /\ thread' = [p \in Procs |-> IdleThread]
    /\ ev' = [NoEvent EXCEPT !.res = "Crashed"]
    /\ UNCHANGED <<file, files, now>>

\* One operation at a time: an operation starts only when no other thread
\* is inside one (the single-writer assumption of the design).
Solo(p) == \A q \in Procs \ {p} : thread[q].pc = "idle"

Next ==
    \/ AdvanceClock
    \/ Solo("sched") /\ SchedTick
    \/ \E p \in Procs : Solo(p) /\ NextLoad(p)
    \/ \E p \in Procs : NextReplay(p)
    \/ \E p \in Procs : Solo(p) /\ PrevLoad(p)
    \/ \E p \in Procs : PrevApply(p)
    \/ \E p \in Procs : Solo(p) /\ NewLoad(p)
    \/ \E p \in Procs : FetchRandom(p)
    \/ \E p \in Procs : DownloadImage(p)
    \/ \E p \in Procs : SetAndCommit(p)
    \/ \E p \in Procs : Write(p)
    \/ \E p \in Procs : Solo(p) /\ SetupLoad(p)
    \/ \E p \in Procs : SetupSave(p)
    \/ \E p \in Procs : Solo(p) /\ PruneLoad(p)
    \/ \E p \in Procs : PruneApply(p)
    \/ Crash

Spec == Init /\ [][Next]_vars

\* The tray process after setup: the scheduler thread (tray::run) and a
\* thread spawned by spawn_oneshot run their operations with no lock between
\* them.  The runs explored keep at most MaxHistThreads entries.
ConfiguredAppData ==
    [DefaultAppData(0) EXCEPT !.unsplash_access_key = "key",
                              !.retention_days = Some(0)]

InitThreads ==
    /\ file = FullFile(ConfiguredAppData)
    /\ files = [f \in Filenames |-> "none"]
    /\ now = 0
    /\ thread = [p \in Procs |-> IdleThread]
    /\ ev = NoEvent

HistCap ==
    \A p \in Procs : thread[p].pc = "fetch" =>
                        Len(thread[p].local.history) < MaxHistThreads

NextThreads ==
    \/ AdvanceClock
    \/ SchedTick
    \/ \E p \in Procs : NextLoad(p) /\ HistCap'
    \/ \E p \in Procs : NextReplay(p)
    \/ \E p \in Procs : PrevLoad(p)
    \/ \E p \in Procs : PrevApply(p)
    \/ \E p \in Procs : NewLoad(p) /\ HistCap'
    \/ \E p \in Procs : FetchRandom(p)
    \/ \E p \in Procs : DownloadImage(p)
    \/ \E p \in Procs : SetAndCommit(p)
    \/ \E p \in Procs : Write(p)

SpecThreads == InitThreads /\ [][NextThreads]_vars

\* The commands run on any record that AppData::load accepts: serde checks
\* the types of the fields only, so wallp.json may hold any cursor with any
\* history and any string as applied_at, and the wallpapers directory may
\* lack any file.
EntryChoices ==
    {[id |-> i, filename |-> Filename(i), applied_at |-> a] :
        i \in PhotoIds, a \in {to_rfc3339(0), <<"bad">>}}

HistoryChoices == UNION {[1..n -> EntryChoices] : n \in 0..MaxRecHist}

RecordChoices ==
    {[DefaultAppData(0) EXCEPT !.unsplash_access_key = k,
                               !.retention_days = r,
                               !.current_history_index = c,
                               !.history = h] :
        k \in {""} \cup AccessKeys,
        r \in {NoneOpt} \cup RetentionChoices,
        c \in 0..(MaxRecHist + 1),
        h \in HistoryChoices}
    \cup
    {[DefaultAppData(0) EXCEPT !.unsplash_access_key = k,
                               !.retention_days = NoneOpt,
                               !.is_running = FALSE,
                               !.current_history_index = c,
                               !.history = h] :
        k \in AccessKeys,
        c \in 0..(MaxRecHist + 1),
        h \in HistoryChoices}

InitRecords ==
    /\ \E d \in RecordChoices : file = FullFile(d)
    /\ files \in [Filenames -> {"none", "full"}]
    /\ now = ClockStep
    /\ thread = [p \in Procs |-> IdleThread]
    /\ ev = NoEvent

\* The runs explored fetch while the history has fewer than MaxRecHist entries.
RecCap ==
    \A p \in Procs : thread[p].pc = "fetch" =>
                        Len(thread[p].local.history) < MaxRecHist

NextRecords ==
    \/ Solo("sched") /\ SchedTick
    \/ \E p \in Procs : Solo(p) /\ NextLoad(p) /\ RecCap'
    \/ \E p \in Procs : NextReplay(p)
    \/ \E p \in Procs : Solo(p) /\ PrevLoad(p)
    \/ \E p \in Procs : PrevApply(p)
    \/ \E p \in Procs : FetchRandom(p)
    \/ \E p \in Procs : DownloadImage(p)
    \/ \E p \in Procs : SetAndCommit(p)
    \/ \E p \in Procs : Write(p)
    \/ \E p \in Procs : Solo(p) /\ SetLoad(p)
    \/ \E p \in Procs : SetByIndex(p)

SpecRecords == InitRecords /\ [][NextRecords]_vars

\* AppData::cleanup_old_wallpapers_in as a function of the record, the
\* wallpapers directory and the clock: it is applied to every record with up
\* to MaxCleanHist entries whose applied_at is two days old, exactly one day
\* old or not a timestamp, with any of the files present or not.
CleanEntryChoices ==
    {[id |-> i, filename |-> Filename(i), applied_at |-> a] :
        i \in PhotoIds,
        a \in {to_rfc3339(0), to_rfc3339(DayMinutes), <<"bad">>}}

CleanRecordChoices ==
    {[DefaultAppData(0) EXCEPT !.unsplash_access_key = "key",
                               !.retention_days = r,
                               !.current_history_index = c,
                               !.history = h] :
        r \in {NoneOpt} \cup RetentionChoices,
        c \in 0..MaxCleanHist,
        h \in UNION {[1..n -> CleanEntryChoices] : n \in 0..MaxCleanHist}}
    \cup
    {[DefaultAppData(0) EXCEPT !.unsplash_access_key = "key",
                               !.retention_days = r,
                               !.is_running = FALSE,
                               !.history = h] :
        r \in RetentionChoices,
        h \in UNION {[1..n -> CleanEntryChoices] : n \in 0..MaxCleanHist}}

InitCleanup ==
    /\ \E d \in CleanRecordChoices : file = FullFile(d)
    /\ files \in [Filenames -> {"none", "full"}]
    /\ now = ClockStep
    /\ thread = [p \in Procs |-> IdleThread]
    /\ ev = NoEvent

NextCleanup == \E p \in Procs : Cleanup(p)

SpecCleanup == InitCleanup /\ [][NextCleanup]_vars

\* wallp.json as text.  The document serde_json writes for a record: JSON
\* values, an object being the sequence of its members in the order of the
\* struct's fields.  Only the fields the record of this module carries are
\* written.
MaxCodecHist == 1

JNull == <<"null">>
JStr(x) == <<"str", x>>
JNum(n) == <<"num", n>>
JBool(b) == <<"bool", b>>
JArr(a) == <<"arr", a>>
JObj(ms) == <<"obj", ms>>

\* Serialize for Option<u64> and Option<String>
SerOptNum(o) == IF o = NoneOpt THEN JNull ELSE JNum(o[1])
SerOptStr(o) == IF o = NoneOpt THEN JNull ELSE JStr(o[1])

\* derive(Serialize) for Wallpaper
SerWallpaper(w) ==
    JObj(<< <<"id", JStr(w.id)>>,
            <<"filename", JStr(w.filename)>>,
            <<"applied_at", JStr(w.applied_at)>> >>)

\* serde_json::to_string_pretty(self) for AppData
to_string_pretty(d) ==
    JObj(<< <<"config", JObj(<<
                <<"unsplash_access_key", JStr(d.unsplash_access_key)>>,
                <<"interval_minutes", JNum(d.interval_minutes)>>,
                <<"retention_days", SerOptNum(d.retention_days)>> >>)>>,
            <<"state", JObj(<<
                <<"is_running", JBool(d.is_running)>>,
                <<"next_run_at", JStr(d.next_run_at)>>,
                <<"last_run_at", JStr(d.last_run_at)>>,
                <<"current_wallpaper_id", SerOptStr(d.current_wallpaper_id)>>,
                <<"current_history_index", JNum(d.current_history_index)>> >>)>>,
            <<"history", JArr([i \in 1..Len(d.history) |->
                                   SerWallpaper(d.history[i])])>> >>)

\* The members of an object with key k, and the value of the only one
Members(v, k) == SelectSeq(v[2], LAMBDA m : m[1] = k)
Has(v, k) == Len(Members(v, k)) = 1
Val(v, k) == Members(v, k)[1][2]

IsObj(v) == v[1] = "obj"
IsA(v, tag) == v[1] = tag
IsOpt(v, tag) == v = JNull \/ v[1] = tag

\* Deserialize for Option<u64> and Option<String>
DeOpt(v) == IF v = JNull THEN NoneOpt ELSE Some(v[2])

\* derive(Deserialize) for Wallpaper: every field is required
ValidWallpaper(v) ==
    /\ IsObj(v)
    /\ Has(v, "id") /\ IsA(Val(v, "id"), "str")
    /\ Has(v, "filename") /\ IsA(Val(v, "filename"), "str")
    /\ Has(v, "applied_at") /\ IsA(Val(v, "applied_at"), "str")

DeWallpaper(v) ==
    [id |-> Val(v, "id")[2],
     filename |-> Val(v, "filename")[2],
     applied_at |-> Val(v, "applied_at")[2]]

\* derive(Deserialize) for Config and State: every field is required
ValidConfig(v) ==
    /\ IsObj(v)
    /\ Has(v, "unsplash_access_key") /\ IsA(Val(v, "unsplash_access_key"), "str")
    /\ Has(v, "interval_minutes") /\ IsA(Val(v, "interval_minutes"), "num")
    /\ Has(v, "retention_days") /\ IsOpt(Val(v, "retention_days"), "num")

ValidState(v) ==
    /\ IsObj(v)
    /\ Has(v, "is_running") /\ IsA(Val(v, "is_running"), "bool")
    /\ Has(v, "next_run_at") /\ IsA(Val(v, "next_run_at"), "str")
    /\ Has(v, "last_run_at") /\ IsA(Val(v, "last_run_at"), "str")
    /\ Has(v, "current_wallpaper_id")
    /\ IsOpt(Val(v, "current_wallpaper_id"), "str")
    /\ Has(v, "current_history_index")
    /\ IsA(Val(v, "current_history_index"), "num")

\* derive(Deserialize) for AppData: config and state are required, history
\* is #[serde(default)]
ValidHistory(v) ==
    \/ Len(Members(v, "history")) = 0
    \/ /\ Has(v, "history")
       /\ IsA(Val(v, "history"), "arr")
       /\ \A i \in 1..Len(Val(v, "history")[2]) :
            ValidWallpaper(Val(v, "history")[2][i])

DeHistory(v) ==
    IF Len(Members(v, "history")) = 0 THEN <<>>
    ELSE [i \in 1..Len(Val(v, "history")[2]) |->
              DeWallpaper(Val(v, "history")[2][i])]

\* from_str that leaves the history at its default
from_str_HistoryDefaulted(c) ==
    IF /\ IsObj(c)
       /\ Has(c, "config") /\ ValidConfig(Val(c, "config"))
       /\ Has(c, "state") /\ ValidState(Val(c, "state"))
       /\ ValidHistory(c)
    THEN [ok |-> TRUE,
          data |-> [unsplash_access_key |-> Val(Val(c, "config"), "unsplash_access_key")[2],
                    interval_minutes |-> Val(Val(c, "config"), "interval_minutes")[2],
                    retention_days |-> DeOpt(Val(Val(c, "config"), "retention_days")),
                    is_running |-> Val(Val(c, "state"), "is_running")[2],
                    next_run_at |-> Val(Val(c, "state"), "next_run_at")[2],
                    last_run_at |-> Val(Val(c, "state"), "last_run_at")[2],
                    current_wallpaper_id |-> DeOpt(Val(Val(c, "state"), "current_wallpaper_id")),
                    current_history_index |-> Val(Val(c, "state"), "current_history_index")[2],
                    history |-> <<>>]]
    ELSE [ok |-> FALSE, data |-> DefaultAppData(0)]

\* serde_json::from_str::<AppData>
from_str(c) ==
    IF /\ IsObj(c)
       /\ Has(c, "config") /\ ValidConfig(Val(c, "config"))
       /\ Has(c, "state") /\ ValidState(Val(c, "state"))
       /\ ValidHistory(c)
    THEN [ok |-> TRUE,
          data |-> [unsplash_access_key |-> Val(Val(c, "config"), "unsplash_access_key")[2],
                    interval_minutes |-> Val(Val(c, "config"), "interval_minutes")[2],
                    retention_days |-> DeOpt(Val(Val(c, "config"), "retention_days")),
                    is_running |-> Val(Val(c, "state"), "is_running")[2],
                    next_run_at |-> Val(Val(c, "state"), "next_run_at")[2],
                    last_run_at |-> Val(Val(c, "state"), "last_run_at")[2],
                    current_wallpaper_id |-> DeOpt(Val(Val(c, "state"), "current_wallpaper_id")),
                    current_history_index |-> Val(Val(c, "state"), "current_history_index")[2],
                    history |-> DeHistory(c)]]
    ELSE [ok |-> FALSE, data |-> DefaultAppData(0)]

\* wallp.json holding the text c
TextFile(c) == [st |-> "full", content |-> <<c>>]

\* AppData::load on the text of wallp.json
load_text(f, t) ==
    IF f.st = "absent" THEN [ok |-> TRUE, data |-> DefaultAppData(t)]
    ELSE IF f.st = "full" THEN from_str(f.content[1])
    ELSE [ok |-> FALSE, data |-> DefaultAppData(t)]

\* AppData::load()?.save(): the record is read and written back as it is.
Resave(p) ==
    /\ p = "user"
    /\ thread[p].pc = "idle"
    /\ LET l == load_text(file, now)
           e == [NoEvent EXCEPT !.proc = p, !.op = "resave", !.orig = l.data,
                                !.data = l.data, !.was = file, !.at = now]
       IN IF ~l.ok
          THEN /\ file' = file
               /\ ev' = [e EXCEPT !.res = "LoadErr"]
          ELSE \/ /\ file' = TextFile(to_string_pretty(l.data))
                  /\ ev' = [e EXCEPT !.res = "Ok", !.touched = TRUE,
                                     !.saved = TRUE]
               \/ /\ file' = TruncatedFile
                  /\ ev' = [e EXCEPT !.res = "IoErr", !.touched = TRUE]
    /\ UNCHANGED <<files, now, thread>>

\* The records written and read back: both kinds of every optional field,
\* histories of up to MaxCodecHist entries
CodecEntryChoices ==
    {[id |-> i, filename |-> Filename(i), applied_at |-> to_rfc3339(0)] :
        i \in PhotoIds}

CodecRecordChoices ==
    {[DefaultAppData(0) EXCEPT !.unsplash_access_key = k,
                               !.retention_days = r,
                               !.current_wallpaper_id = w,
                               !.current_history_index = c,
                               !.history = h] :
        k \in {""} \cup AccessKeys,
        r \in {NoneOpt} \cup RetentionChoices,
        w \in {NoneOpt, Some("a")},
        c \in 0..MaxCodecHist,
        h \in UNION {[1..m -> CodecEntryChoices] : m \in 0..MaxCodecHist}}

\* d.save() followed by AppData::load()
SaveThenLoad(p) ==
    /\ p = "user"
    /\ thread[p].pc = "idle"
    /\ \E d \in CodecRecordChoices :
         LET f == TextFile(to_string_pretty(d))
             l == load_text(f, now)
         IN /\ file' = f
            /\ ev' = [NoEvent EXCEPT
                        !.proc = p, !.op = "save_load", !.orig = d,
                        !.data = l.data, !.at = now,
                        !.res = IF l.ok THEN "Ok" ELSE "LoadErr",
                        !.touched = TRUE, !.saved = TRUE]
    /\ UNCHANGED <<files, now, thread>>

\* The text of a record without its "state" member
WithoutState(c) == JObj(SelectSeq(c[2], LAMBDA m : m[1] # "state"))

\* wallp.json at the start: absent, written by save, or not an AppData
InitCodec ==
    /\ \/ file = AbsentFile
       \/ \E d \in CodecRecordChoices : file = TextFile(to_string_pretty(d))
       \/ file = TextFile(WithoutState(to_string_pretty(DefaultAppData(0))))
    /\ files = [f \in Filenames |-> "none"]
    /\ now = 0
    /\ thread = [p \in Procs |-> IdleThread]
    /\ ev = NoEvent

NextCodec ==
    \/ \E p \in Procs : Resave(p)
    \/ \E p \in Procs : SaveThenLoad(p)

SpecCodec == InitCodec /\ [][NextCodec]_vars

\* The scheduler thread alone (tray::run spawns it with its own runtime):
\* start_background_task polls for ever, the interval fires again after every
\* tick and every await of a tick completes.  wallp.json is unreadable,
\* holds an unparsable next_run_at, lacks the access key, or is a usable
\* record; the runs explored fetch while the history has fewer than
\* MaxRecHist entries.
SchedRecordChoices ==
    {[ConfiguredAppData EXCEPT !.unsplash_access_key = k,
                               !.next_run_at = n,
                               !.history = h] :
        k \in {""} \cup AccessKeys,
        n \in {to_rfc3339(0), <<"bad">>},
        h \in {<<>>, [i \in 1..2 |-> [id |-> "a", filename |-> Filename("a"),
                                      applied_at |-> to_rfc3339(0)]]}}

InitSched ==
    /\ \/ file = TruncatedFile
       \/ \E d \in SchedRecordChoices : file = FullFile(d)
    /\ files \in {[f \in Filenames |-> "none"], [f \in Filenames |-> "full"]}
    /\ now = 0
    /\ thread = [p \in Procs |-> IdleThread]
    /\ ev = NoEvent

NextSched ==
    \/ AdvanceClock
    \/ SchedTick
    \/ NextLoad("sched") /\ RecCap'
    \/ NextReplay("sched")
    \/ FetchRandom("sched")
    \/ DownloadImage("sched")
    \/ SetAndCommit("sched")
    \/ Write("sched")

SpecSched ==
    /\ InitSched
    /\ [][NextSched]_vars
    /\ WF_vars(SchedTick)
    /\ WF_vars(NextLoad("sched") /\ RecCap')
    /\ WF_vars(NextReplay("sched"))
    /\ WF_vars(FetchRandom("sched"))
    /\ WF_vars(DownloadImage("sched"))
    /\ WF_vars(SetAndCommit("sched"))
    /\ WF_vars(Write("sched"))

\* The current-wallpaper query on the records the commands leave in
\* wallp.json: any history of up to MaxQueryHist entries with the cursor on
\* one of them (0 when there is none), or no readable record.
MaxQueryHist == 3

QueryRecordChoices ==
    {[ConfiguredAppData EXCEPT !.current_history_index = c, !.history = h] :
        c \in 0..(MaxQueryHist - 1),
        h \in UNION {[1..n -> EntryChoices] : n \in 0..MaxQueryHist}}

InitQuery ==
    /\ \/ file \in {AbsentFile, TruncatedFile}
       \/ \E d \in QueryRecordChoices :
            /\ d.current_history_index <= saturating_sub(Len(d.history), 1)
            /\ file = FullFile(d)
    /\ files = [f \in Filenames |-> "full"]
    /\ now = 0
    /\ thread = [p \in Procs |-> IdleThread]
    /\ ev = NoEvent

NextQuery == \E p \in Procs : GetCurrent(p)

SpecQuery == InitQuery /\ [][NextQuery]_vars

\* ------------------------------------------------------------------ claims

\* The record in wallp.json, when the file holds one
Persisted == file.content[1]

\* The operation that returned in the last step loaded a record with the
\* cursor below the last entry / at the last entry or on an empty history.
CursorBelowLast(d) == d.current_history_index < Len(d.history) - 1
CursorAtEnd(d) == d.history = <<>> \/ d.current_history_index = Len(d.history) - 1

\* C1: whenever the persisted history is non-empty, the persisted cursor
\* satisfies 0 <= current_history_index < len(history), after every
\* operation, successful or not.
C1_CursorInBounds ==
    (file.st = "full" /\ Persisted.history # <<>>) =>
        /\ 0 <= Persisted.current_history_index
        /\ Persisted.current_history_index < Len(Persisted.history)

\* A Prev has just moved the persisted cursor into the middle of three entries.
C1_Witness ==
    /\ ev.op = "prev" /\ ev.res = "Ok"
    /\ file.st = "full"
    /\ Len(Persisted.history) = 3
    /\ Persisted.current_history_index = 1

\* C2 (as claimed): whenever the persisted history is non-empty, the
\* persisted current_wallpaper_id is the id of history[current_history_index].
C2_CurrentIdMatches ==
    (file.st = "full" /\ Persisted.history # <<>>
       /\ Persisted.current_history_index < Len(Persisted.history)) =>
        Persisted.current_wallpaper_id =
            Some(Persisted.history[Persisted.current_history_index + 1].id)

\* C3 (as claimed): a scheduler tick that changes the persisted record has
\* requested a candidate from the provider and appended one entry; it never
\* replays a cached entry.
C3_TickAlwaysFetches ==
    (ev.op = "tick" /\ ev.res = "Ok" /\ ev.saved) =>
        /\ ev.called
        /\ Len(ev.data.history) = Len(ev.orig.history) + 1

\* A thread is inside fetch_and_set_new, between the load and the end of the save.
InFetch(p) ==
    \/ thread[p].pc \in {"fetch", "download", "commit"}
    \/ thread[p].pc = "write" /\ thread[p].called

\* C4 (as claimed): at most one fetch is between its load and its save.
C4_SingleFetchInFlight ==
    Cardinality({p \in Procs : InFetch(p)}) <= 1

\* C5 (as claimed): when the candidate was downloaded and the OS call that
\* sets the wallpaper fails, the entry is still appended and the record is
\* still saved, and the error is returned.
C5_SetFailureStillCommits ==
    (ev.res = "SetErr" /\ ev.called) =>
        /\ Len(ev.data.history) = Len(ev.orig.history) + 1
        /\ ev.saved
        /\ file = FullFile(ev.data)

\* C6 (as claimed): every entry of the persisted history has its file in the
\* wallpapers directory; stated for the record a cleanup has just saved.
C6_HistoryFilesExist ==
    (ev.op = "prune" /\ ev.res = "Ok" /\ ev.saved /\ file.st = "full") =>
        \A i \in 1..Len(Persisted.history) :
            files[Persisted.history[i].filename] # "none"

\* C7 (as claimed): when the process dies during a save, wallp.json holds a
\* complete record (the previous one or the new one), never an empty or
\* partial one.
C7_SaveCrashSafe ==
    ev.res = "Crashed" => file.st # "truncated"

\* C8: a Next that loaded a cursor below the last entry sends no provider
\* request and leaves the history as it was; when it succeeds, the persisted
\* cursor is the loaded one plus one and the entry applied is the one there.
C8_NextReplays ==
    (ev.op = "next" /\ ev.res # "LoadErr" /\ CursorBelowLast(ev.orig)) =>
        /\ ~ev.called
        /\ ev.data.history = ev.orig.history
        /\ ev.res = "Ok" =>
             /\ ev.data.current_history_index = ev.orig.current_history_index + 1
             /\ ev.applied =
                  Some(ev.orig.history[ev.orig.current_history_index + 2].filename)
             /\ file = FullFile(ev.data)

\* A Next has just replayed entry 1 of three from cursor 0.
C8_Witness ==
    /\ ev.op = "next" /\ ev.res = "Ok"
    /\ Len(ev.orig.history) = 3
    /\ ev.orig.current_history_index = 0
    /\ file.st = "full"
    /\ Persisted.current_history_index = 1

\* C9: a Next that loaded a cursor at the last entry, or an empty history,
\* takes the fetch path: it ends with a result of fetch_and_set_new, never
\* with an index or no-previous error, and applies nothing without a provider
\* request; when it succeeds the history has grown by exactly one entry and
\* the persisted cursor is the new last index.
C9_NextAtEndFetches ==
    (ev.op = "next" /\ ev.res # "LoadErr" /\ CursorAtEnd(ev.orig)) =>
        /\ ev.res \in {"Ok", "MissingKey", "ProviderErr", "DownloadErr", "SetErr", "IoErr"}
        /\ ev.applied # NoneOpt => ev.called
        /\ ev.res = "Ok" =>
             /\ ev.called
             /\ Len(ev.data.history) = Len(ev.orig.history) + 1
             /\ SubSeq(ev.data.history, 1, Len(ev.orig.history)) = ev.orig.history
             /\ ev.data.current_history_index = Len(ev.data.history) - 1
             /\ file = FullFile(ev.data)

\* A Next at cursor 2 of three entries has just appended the fourth.
C9_Witness ==
    /\ ev.op = "next" /\ ev.res = "Ok"
    /\ Len(ev.orig.history) = 3
    /\ ev.orig.current_history_index = 2
    /\ file.st = "full"
    /\ Len(Persisted.history) = 4
    /\ Persisted.current_history_index = 3

\* C10: a Prev that loaded cursor 0 fails with NoPrev without applying
\* anything or opening wallp.json for writing, so the file still holds what
\* was loaded; a Prev that loaded a cursor > 0 and succeeds has persisted the
\* loaded record with the cursor one lower and applied the entry there.
C10_PrevAtStartFails ==
    (ev.op = "prev" /\ ev.res # "LoadErr") =>
        /\ ev.orig.current_history_index = 0 =>
             /\ ev.res = "NoPrev"
             /\ ~ev.touched /\ ~ev.saved
             /\ ev.applied = NoneOpt
             /\ file.st # "truncated"
             /\ file.st = "full" => Persisted = ev.orig
        /\ (ev.orig.current_history_index > 0 /\ ev.res = "Ok") =>
             /\ ev.data = [ev.orig EXCEPT !.current_history_index =
                                            ev.orig.current_history_index - 1]
             /\ ev.applied =
                  Some(ev.orig.history[ev.orig.current_history_index].filename)
             /\ file = FullFile(ev.data)

\* A Prev on three entries with the cursor at 0 has just failed.
C10_Witness ==
    /\ ev.op = "prev" /\ ev.res = "NoPrev"
    /\ Len(ev.orig.history) = 3
    /\ ev.orig.current_history_index = 0
    /\ file = FullFile(ev.orig)

\* C11: a Next that succeeds right after a Prev that succeeded sends no
\* provider request, leaves the history as the Prev loaded it, and makes the
\* entry the Prev started from the current one again: the persisted cursor is
\* the one the Prev loaded and the entry applied is the entry at that cursor.
C11_PrevThenNextRestores ==
    (ev.op = "next" /\ ev.res = "Ok" /\ ev.prior # NoneOpt) =>
        LET before == ev.prior[1]
        IN /\ ~ev.called
           /\ ev.data.history = before.history
           /\ ev.data.current_history_index = before.current_history_index
           /\ ev.applied =
                Some(before.history[before.current_history_index + 1].filename)
           /\ file = FullFile(ev.data)

\* Prev from cursor 2 of three entries, then Next, is back at cursor 2.
C11_Witness ==
    /\ ev.op = "next" /\ ev.res = "Ok" /\ ev.prior # NoneOpt
    /\ Len(ev.prior[1].history) = 3
    /\ ev.prior[1].current_history_index = 2
    /\ file.st = "full"
    /\ Persisted.current_history_index = 2

\* C12 (as claimed): a set command whose index is outside 0 <= i < len(history)
\* fails with IndexOutOfRange, for every history length, and leaves wallp.json
\* as it was; with the index in range and the command successful, the
\* persisted cursor is i and the entry applied is history[i].
C12_SetByIndexRange ==
    (ev.op = "set" /\ ev.res # "LoadErr") =>
        /\ ev.arg >= Len(ev.orig.history) =>
             /\ ev.res = "IndexOutOfRange"
             /\ ~ev.touched
             /\ file = FullFile(ev.orig)
        /\ (ev.arg < Len(ev.orig.history) /\ ev.res = "Ok") =>
             /\ ev.data = [ev.orig EXCEPT !.current_history_index = ev.arg]
             /\ ev.applied = Some(ev.orig.history[ev.arg + 1].filename)
             /\ file = FullFile(ev.data)

\* C13: a New takes the fetch path whatever the cursor is: it ends with a
\* result of fetch_and_set_new and applies nothing without a provider
\* request; when it succeeds, the persisted history is the loaded one with
\* exactly one entry added at the end (nothing after the old cursor is
\* dropped) and the persisted cursor is the new last index.
C13_NewAlwaysAppends ==
    (ev.op = "new" /\ ev.res # "LoadErr") =>
        /\ ev.res \in {"Ok", "MissingKey", "ProviderErr", "DownloadErr", "SetErr", "IoErr"}
        /\ ev.applied # NoneOpt => ev.called
        /\ ev.res = "Ok" =>
             /\ ev.called
             /\ Len(ev.data.history) = Len(ev.orig.history) + 1
             /\ SubSeq(ev.data.history, 1, Len(ev.orig.history)) = ev.orig.history
             /\ ev.applied = Some(ev.data.history[Len(ev.data.history)].filename)
             /\ ev.data.current_history_index = Len(ev.data.history) - 1
             /\ file = FullFile(ev.data)

\* A New with the cursor at 0 of three entries has just appended the fourth.
C13_Witness ==
    /\ ev.op = "new" /\ ev.res = "Ok"
    /\ Len(ev.orig.history) = 3
    /\ ev.orig.current_history_index = 0
    /\ file.st = "full"
    /\ Len(Persisted.history) = 4
    /\ Persisted.current_history_index = 3

\* The operation that returned in the last step had a cached entry to apply
\* (Next below the last entry, Prev above the first, set with an index in
\* range), and the position of that entry in the loaded history.
AppliesCached ==
    \/ ev.op = "next" /\ CursorBelowLast(ev.orig)
    \/ ev.op = "prev" /\ ev.orig.current_history_index > 0
                      /\ ev.orig.current_history_index <= Len(ev.orig.history)
    \/ ev.op = "set" /\ ev.arg < Len(ev.orig.history)

CachedTarget ==
    IF ev.op = "next" THEN ev.orig.current_history_index + 2
    ELSE IF ev.op = "prev" THEN ev.orig.current_history_index
    ELSE ev.arg + 1

\* C14: an operation that has to apply a cached entry whose file is not in
\* the wallpapers directory fails with MissingFile; an operation that fails
\* so has sent no provider request, has applied nothing and has not opened
\* wallp.json for writing, which still holds the record that was loaded.
C14_MissingArtifactAborts ==
    /\ (ev.res # "LoadErr" /\ AppliesCached
          /\ files[ev.orig.history[CachedTarget].filename] = "none") =>
            ev.res = "MissingFile"
    /\ ev.res = "MissingFile" =>
          /\ ~ev.called
          /\ ev.applied = NoneOpt
          /\ ~ev.touched /\ ~ev.saved
          /\ file = FullFile(ev.orig)

\* A Next from cursor 0 of two entries has just failed on the missing file
\* of entry 1.
C14_Witness ==
    /\ ev.op = "next" /\ ev.res = "MissingFile"
    /\ Len(ev.orig.history) = 2
    /\ ev.orig.current_history_index = 0
    /\ files[ev.orig.history[2].filename] = "none"
    /\ file = FullFile(ev.orig)

\* C15: a Next or New that reaches fetch_and_set_new with an empty credential
\* fails with MissingKey; an operation that fails so has sent no provider
\* request, has applied nothing, has created no file in the wallpapers
\* directory and has not opened wallp.json for writing, which holds what was
\* loaded.
C15_MissingCredentialFailsFast ==
    /\ (ev.op \in {"next", "new"} /\ ev.res # "LoadErr"
          /\ (ev.op = "new" \/ ~CursorBelowLast(ev.orig))
          /\ ev.orig.unsplash_access_key = "") =>
            ev.res = "MissingKey"
    /\ ev.res = "MissingKey" =>
          /\ ~ev.called
          /\ ev.applied = NoneOpt
          /\ ~ev.wrote
          /\ ~ev.touched /\ ~ev.saved
          /\ ev.data = ev.orig
          /\ file.st # "truncated"
          /\ file.st = "full" => Persisted = ev.orig

\* A Next at the only entry of the history has just failed for lack of a
\* credential.
C15_Witness ==
    /\ ev.op = "next" /\ ev.res = "MissingKey"
    /\ Len(ev.orig.history) = 1
    /\ ev.orig.current_history_index = 0
    /\ file = FullFile(ev.orig)

\* C16: a fetch that fails at the provider request or at the download has
\* appended nothing and has not opened wallp.json for writing, which holds the
\* record that was loaded (a failed provider request has created no file
\* either); an operation appends an entry to its record, and saves it, only
\* when the file of that entry is completely written.
C16_FetchFailureNoCommit ==
    /\ ev.res \in {"ProviderErr", "DownloadErr"} =>
          /\ ev.called
          /\ ev.data = ev.orig
          /\ ev.applied = NoneOpt
          /\ ev.res = "ProviderErr" => ~ev.wrote
          /\ ~ev.touched /\ ~ev.saved
          /\ file.st # "truncated"
          /\ file.st = "full" => Persisted = ev.orig
    /\ \A p \in Procs :
          Len(thread[p].local.history) > Len(thread[p].orig.history) =>
            files[thread[p].local.history[Len(thread[p].local.history)].filename]
                = "full"
    /\ (ev.called /\ ev.res = "Ok") =>
          /\ ev.wrote
          /\ files[ev.data.history[Len(ev.data.history)].filename] = "full"

\* A New on two entries has just failed in the download, leaving a partial
\* file and the record as it was.
C16_Witness ==
    /\ ev.op = "new" /\ ev.res = "DownloadErr" /\ ev.wrote
    /\ Len(ev.orig.history) = 2
    /\ \E f \in Filenames : files[f] = "partial"
    /\ file = FullFile(ev.orig)

\* C17 (as claimed): right after a successful operation that set a new
\* wallpaper (New, Next at the end of the history, a scheduler tick that
\* fetched), the persisted next_run_at is the persisted last_run_at plus
\* interval_minutes.
C17_NextRunIsLastRunPlusInterval ==
    (ev.op \in {"new", "next", "tick"} /\ ev.res = "Ok" /\ ev.called
       /\ file.st = "full") =>
        parse_from_rfc3339(Persisted.next_run_at).val =
            parse_from_rfc3339(Persisted.last_run_at).val
                + Persisted.interval_minutes

\* C18 (as claimed): on every record that load accepts, whatever its cursor,
\* Next, Prev and a scheduler tick return a success or an error value; none
\* of them panics.
C18_NoPanic ==
    ev.op \in {"next", "prev", "tick"} => ev.res # "Panic"

\* C19 (as claimed): a cleanup with retention_days = 0 on a history of
\* k >= 1 entries keeps exactly the last entry; when no file removal fails,
\* the files of all earlier entries are gone and the file of the last entry
\* is as the cleanup found it.
C19_DeleteImmediatelyKeepsLast ==
    (ev.op = "cleanup" /\ ev.orig.retention_days = Some(0)
       /\ Len(ev.orig.history) >= 1) =>
        LET k == Len(ev.orig.history)
            last == ev.orig.history[k]
        IN /\ ev.data.history = <<last>>
           /\ ev.warned = 0 =>
                /\ \A i \in 1..(k - 1) : files[ev.orig.history[i].filename] = "none"
                /\ files[last.filename] = ev.dir[last.filename]

\* C20: a cleanup with retention_days = n >= 1 keeps, in their order, exactly
\* the entries whose applied_at does not parse or is not before now - n days,
\* and removes the others wherever they are in the history.
C20_KeepDaysRemovesStale ==
    (ev.op = "cleanup" /\ ev.orig.retention_days # NoneOpt
       /\ ev.orig.retention_days[1] >= 1) =>
        LET cutoff == now - ev.orig.retention_days[1] * DayMinutes
            Retained(w) ==
                \/ Len(w.applied_at) # 2
                \/ w.applied_at[1] # "ts"
                \/ w.applied_at[2] >= cutoff
        IN ev.data.history = SelectSeq(ev.orig.history, Retained)

\* A cleanup that keeps one day has just removed the two-day-old entry from
\* the middle of three and kept the unparsable one before it and the
\* one-day-old one after it.
C20_Witness ==
    /\ ev.op = "cleanup" /\ ev.orig.retention_days = Some(1)
    /\ Len(ev.orig.history) = 3
    /\ ev.orig.history[1].applied_at = <<"bad">>
    /\ ev.orig.history[2].applied_at = to_rfc3339(0)
    /\ ev.orig.history[3].applied_at = to_rfc3339(DayMinutes)
    /\ ev.data.history = <<ev.orig.history[1], ev.orig.history[3]>>

\* C21: a cleanup with no retention period (keep forever) changes nothing:
\* the record, cursor included, and the wallpapers directory are as before and
\* the count returned is 0, however old the entries are.
C21_ForeverIsNoOp ==
    (ev.op = "cleanup" /\ ev.orig.retention_days = NoneOpt) =>
        /\ ev.res = "Ok"
        /\ ev.data = ev.orig
        /\ files = ev.dir
        /\ ev.removed = 0

\* A cleanup that keeps forever has just left three two-day-old entries and
\* their files alone.
C21_Witness ==
    /\ ev.op = "cleanup" /\ ev.orig.retention_days = NoneOpt
    /\ Len(ev.orig.history) = 3
    /\ \A i \in 1..3 : ev.orig.history[i].applied_at = to_rfc3339(0)
    /\ \A f \in Filenames : files[f] = "full"
    /\ Len(ev.data.history) = 3

\* C22 (as claimed): the count a cleanup returns is the number of entries it
\* removed from the history, whether or not their files existed or could be
\* deleted.
C22_CountIsEntriesRemoved ==
    ev.op = "cleanup" =>
        ev.removed = Len(ev.orig.history) - Len(ev.data.history)

\* The entries the retention policy of the loaded record keeps
PolicyKept ==
    LET h == ev.orig.history
        r == ev.orig.retention_days
        cutoff == now - r[1] * DayMinutes
        Retained(w) ==
            \/ Len(w.applied_at) # 2
            \/ w.applied_at[1] # "ts"
            \/ w.applied_at[2] >= cutoff
    IN IF r = NoneOpt THEN h
       ELSE IF r[1] = 0 THEN (IF Len(h) > 1 THEN <<h[Len(h)]>> ELSE h)
       ELSE SelectSeq(h, Retained)

\* The files of the removed entries that the cleanup found and left in place
LeftoverFiles ==
    {f \in Filenames :
        /\ \E i \in 1..Len(ev.orig.history) :
              /\ ev.orig.history[i].filename = f
              /\ \A j \in 1..Len(PolicyKept) : PolicyKept[j] # ev.orig.history[i]
        /\ ev.dir[f] # "none"
        /\ files[f] # "none"}

C24_CursorClampedAfterPrune ==
    ev.op = "cleanup" =>
        /\ 0 <= ev.data.current_history_index
        /\ ev.data.current_history_index <= saturating_sub(Len(ev.data.history), 1)

\* The load of wallp.json by the operation that set ev failed.
C25_LoadFailed == ev.res = "LoadErr" \/ ev.corrupt

\* C25 (as claimed): load gives the defaults, without error, when wallp.json
\* is absent and an error when it is there and does not parse; an operation
\* whose load failed does not write wallp.json.
C25_CorruptRecordNotOverwritten ==
    /\ load(AbsentFile, now) = [ok |-> TRUE, data |-> DefaultAppData(now)]
    /\ ~load(TruncatedFile, now).ok
    /\ \A p \in Procs : thread[p].corrupt => ~thread[p].touched
    /\ C25_LoadFailed => ~ev.touched

\* C27: a tick that loads a record with an empty access key returns Ok with
\* no provider request, no wallpaper applied and wallp.json not written, even
\* when next_run_at has passed and the cursor is below the last entry.
C27_NoCredentialTickSkipped ==
    (ev.op = "tick" /\ ev.res # "LoadErr" /\ ev.orig.unsplash_access_key = "") =>
        /\ ev.res = "Ok"
        /\ ~ev.called
        /\ ev.applied = NoneOpt
        /\ ~ev.touched
        /\ ev.data = ev.orig
        /\ file = FullFile(ev.orig)

\* A due tick on a record with an empty access key, two entries and the
\* cursor on the first has just returned Ok.
C27_Witness ==
    /\ ev.op = "tick" /\ ev.res = "Ok"
    /\ ev.orig.unsplash_access_key = ""
    /\ Len(ev.orig.history) = 2
    /\ ev.orig.current_history_index = 0
    /\ parse_from_rfc3339(ev.orig.next_run_at).ok
    /\ parse_from_rfc3339(ev.orig.next_run_at).val <= now
    /\ file = FullFile(ev.orig)

\* The record the tick that set ev loaded has an access key and a next_run_at
\* that parses.
C29_TickChecksTime ==
    /\ ev.op = "tick"
    /\ ev.res # "LoadErr"
    /\ ev.orig.unsplash_access_key # ""
    /\ parse_from_rfc3339(ev.orig.next_run_at).ok

\* C29: a tick with now < next_run_at returns Ok without calling
\* manager::next and leaves wallp.json as it was; the scheduler calls
\* manager::next only with an access key and now >= next_run_at, and a tick
\* with an access key that returns without calling it has now < next_run_at.
C29_AdvanceOnlyWhenDue ==
    /\ (C29_TickChecksTime /\ now < parse_from_rfc3339(ev.orig.next_run_at).val) =>
          /\ ev.res = "Ok"
          /\ ~ev.called /\ ev.applied = NoneOpt /\ ~ev.touched
          /\ ev.data = ev.orig
          /\ file = FullFile(ev.orig)
    /\ thread["sched"].pc = "next" =>
          /\ thread["sched"].orig.unsplash_access_key # ""
          /\ parse_from_rfc3339(thread["sched"].orig.next_run_at).ok
          /\ parse_from_rfc3339(thread["sched"].orig.next_run_at).val <= now
    /\ (C29_TickChecksTime /\ ev.res = "Ok" /\ ~ev.saved) =>
          now < parse_from_rfc3339(ev.orig.next_run_at).val

\* A tick on a record with an access key, two entries and the cursor on the
\* first has just returned without an advance, next_run_at being ahead.
C29_Witness ==
    /\ C29_TickChecksTime /\ ev.res = "Ok"
    /\ now < parse_from_rfc3339(ev.orig.next_run_at).val
    /\ Len(ev.orig.history) = 2
    /\ ev.orig.current_history_index = 0
    /\ file = FullFile(ev.orig)

\* C30 (as claimed): the scheduler does not call manager::next on the tick
\* that follows a successful manual replay (Next within the history, or Prev)
\* with the clock unchanged, even when next_run_at had passed before the
\* replay.
C30_NoAdvanceRightAfterReplay ==
    ~(thread["sched"].pc = "next" /\ thread["sched"].prior # NoneOpt)

\* C26: a load followed by a save of the record loaded leaves wallp.json,
\* as written by an earlier save, with the content it had; a save of a record
\* followed by a load gives that record.
C26_RoundTrip ==
    /\ (ev.op = "resave" /\ ev.res = "Ok" /\ ev.was.st = "full") => file = ev.was
    /\ ev.op = "save_load" => (ev.res = "Ok" /\ ev.data = ev.orig)

\* A record with an entry in its history, no retention period and a current
\* wallpaper id has just been read and written back.
C26_Witness ==
    /\ ev.op = "resave" /\ ev.res = "Ok"
    /\ ev.was.st = "full"
    /\ Len(ev.orig.history) = 1
    /\ ev.orig.retention_days = NoneOpt
    /\ ev.orig.current_wallpaper_id # NoneOpt
    /\ file = TextFile(to_string_pretty(ev.orig))

\* A tick has just ended in an error.
C28_TickFailed == ev.op = "tick" /\ ev.res # "Ok"

\* C28: a tick that ends in an error (load error, unparsable next_run_at,
\* failed fetch, download, OS call or save) leaves the scheduler idle, and
\* another tick follows it: one that returns at once, or one that goes on
\* into manager::next.
C28_SchedulerSurvivesErrors ==
    /\ [](C28_TickFailed => thread["sched"].pc = "idle")
    /\ \A s \in {0, 1} : \A t \in {0, ClockStep} :
         (C28_TickFailed /\ ev.seq = s /\ ev.at = t) ~>
             \/ thread["sched"].pc # "idle"
             \/ ev.op = "tick" /\ (ev.seq # s \/ ev.at # t)

\* A tick has just failed right after a tick that failed to parse
\* next_run_at.
C28_Witness ==
    /\ ev.op = "tick" /\ ev.res = "ParseErr"
    /\ ev.seq = 1
    /\ thread["sched"].pc = "idle"

\* The entries of h at the positions K, in the order of h
C38_At(h, K) == SelectSeq([i \in 1..Len(h) |-> <<i, h[i]>>], LAMBDA e : e[1] \in K)

\* The files the cleanup that set ev has deleted
C38_Deleted == {f \in Filenames : ev.dir[f] # "none" /\ files[f] = "none"}

\* C38: the history a cleanup leaves is the original one with the entries at
\* some positions taken out, the others unchanged and in their order, and
\* every file it deletes is named by an entry at one of the positions taken
\* out; nothing but the history and the cursor of the record changes.
C38_PruneKeepsSubsequence ==
    ev.op = "cleanup" =>
        /\ \E K \in SUBSET (1..Len(ev.orig.history)) :
             /\ ev.data.history =
                  [i \in 1..Cardinality(K) |-> C38_At(ev.orig.history, K)[i][2]]
             /\ \A f \in C38_Deleted :
                  \E i \in (1..Len(ev.orig.history)) \ K :
                      ev.orig.history[i].filename = f
        /\ ev.data = [ev.orig EXCEPT
                        !.history = ev.data.history,
                        !.current_history_index = ev.data.current_history_index]

\* A cleanup that keeps one day has just taken the stale middle entry out of
\* three different-aged entries and deleted its file, leaving the file of the
\* entries it kept.
C38_Witness ==
    /\ ev.op = "cleanup" /\ ev.orig.retention_days = Some(1)
    /\ Len(ev.orig.history) = 3
    /\ Len(ev.data.history) = 2
    /\ ev.data.history = <<ev.orig.history[1], ev.orig.history[3]>>
    /\ ev.orig.history[2].filename # ev.orig.history[1].filename
    /\ C38_Deleted = {ev.orig.history[2].filename}

\* C31 (as claimed): when an operation has saved, wallp.json holds exactly
\* the record that operation wrote, whatever another thread has loaded or
\* written meanwhile, and the cursor of that record is within its history.
C31_LastSaveWins ==
    (ev.saved /\ ev.res = "Ok") =>
        /\ file = FullFile(ev.data)
        /\ ev.data.history # <<>> =>
             ev.data.current_history_index < Len(ev.data.history)

\* C32: the defaults and every record the setup wizard hands to save have an
\* interval of at least MIN_INTERVAL_MINUTES, and so has every record in
\* wallp.json, whatever was typed at the interval prompt.
C32_IntervalAtLeastMinimum ==
    /\ DefaultAppData(now).interval_minutes >= MIN_INTERVAL_MINUTES
    /\ \A p \in Procs :
         (thread[p].op = "setup" /\ thread[p].touched) =>
             thread[p].local.interval_minutes >= MIN_INTERVAL_MINUTES
    /\ ev.op = "setup" => ev.data.interval_minutes >= MIN_INTERVAL_MINUTES
    /\ file.st = "full" => Persisted.interval_minutes >= MIN_INTERVAL_MINUTES

\* The setup wizard has just saved a record over an existing one.
C32_Witness ==
    /\ ev.op = "setup" /\ ev.res = "Ok" /\ ev.saved
    /\ ev.orig.unsplash_access_key # ""
    /\ file = FullFile(ev.data)
    /\ ev.data.interval_minutes = 1440

\* The operation that set ev is a Next, a Prev, a New or a tick that loaded a
\* record.
C33_Navigation ==
    ev.op \in {"next", "prev", "new", "tick"} /\ ev.res # "LoadErr"

\* The record d with the fields a replay may move put back as in e
C33_ButCursorAndNextRun(d, e) ==
    [d EXCEPT !.current_history_index = e.current_history_index,
              !.next_run_at = e.next_run_at]

\* C33: the record a Next, Prev, New or tick ends with keeps every entry of
\* the loaded history in its place; it has one more entry only when the
\* provider was asked, and otherwise (a replay by Next, by a tick or by Prev)
\* differs from the loaded record in nothing but the cursor and next_run_at:
\* history, config, is_running and last_run_at are the same.  What is saved
\* is that record.
C33_ReplayKeepsHistory ==
    C33_Navigation =>
        /\ Len(ev.data.history) >= Len(ev.orig.history)
        /\ SubSeq(ev.data.history, 1, Len(ev.orig.history)) = ev.orig.history
        /\ Len(ev.data.history) <= Len(ev.orig.history) + 1
        /\ Len(ev.data.history) > Len(ev.orig.history) => ev.called
        /\ ~ev.called => C33_ButCursorAndNextRun(ev.data, ev.orig) = ev.orig
        /\ ev.op = "prev" => ev.data.next_run_at = ev.orig.next_run_at
        /\ (ev.saved /\ ev.res = "Ok") => file = FullFile(ev.data)

\* A Next has just replayed the second of three entries a day or more after
\* the last fetch and saved the record.
C33_Witness ==
    /\ ev.op = "next" /\ ev.res = "Ok" /\ ~ev.called /\ ev.saved
    /\ Len(ev.orig.history) = 3
    /\ ev.orig.current_history_index = 0
    /\ ev.data.current_history_index = 1
    /\ ev.data.next_run_at # ev.orig.next_run_at
    /\ parse_from_rfc3339(ev.orig.last_run_at).val < now
    /\ file = FullFile(ev.data)

\* C34: the current-wallpaper query answers none when the history of the
\* record is empty and the entry under the cursor otherwise, and leaves
\* wallp.json as it found it.
C34_CurrentIsEntryAtCursor ==
    (ev.op = "current" /\ ev.res = "Ok") =>
        /\ ev.orig.history = <<>> => ev.current = NoneOpt
        /\ ev.orig.history # <<>> =>
             /\ ev.current # NoneOpt
             /\ ev.current[1] = ev.orig.history[ev.orig.current_history_index + 1]
        /\ ~ev.touched /\ ~ev.saved
        /\ ev.data = ev.orig
        /\ file.st = "absent" \/ file = FullFile(ev.orig)

\* The query has just answered with the second of three entries.
C34_Witness ==
    /\ ev.op = "current" /\ ev.res = "Ok"
    /\ Len(ev.orig.history) = 3
    /\ ev.orig.current_history_index = 1
    /\ ev.current = Some(ev.orig.history[2])
    /\ ev.orig.history[2] # ev.orig.history[3]
    /\ file = FullFile(ev.orig)

\* A tick has just failed in its fetch: at the provider request, in the
\* download or in the OS call that sets the downloaded wallpaper.
C35_ScheduledFetchFailed ==
    /\ ev.op = "tick"
    /\ ev.called
    /\ ev.res \in {"ProviderErr", "DownloadErr", "SetErr"}

\* C35: a tick whose fetch fails leaves wallp.json with the record it loaded,
\* next_run_at included, so the next tick finds the access key, a due time
\* that has passed and the cursor at the end, and goes into the fetch again;
\* an operation changes the persisted next_run_at only when it is a Next, a
\* New or a tick that succeeded, and then to a later time.
C35_FailedFetchKeepsDueTime ==
    /\ C35_ScheduledFetchFailed =>
          /\ ~ev.touched
          /\ file = FullFile(ev.orig)
          /\ Persisted.unsplash_access_key # ""
          /\ parse_from_rfc3339(Persisted.next_run_at).ok
          /\ parse_from_rfc3339(Persisted.next_run_at).val <= now
          /\ ~CanGoForward(Persisted)
    /\ (ev.op # "none" /\ file.st = "full"
          /\ Persisted.next_run_at # ev.orig.next_run_at) =>
          /\ ev.op \in {"next", "new", "tick"}
          /\ ev.res = "Ok" /\ ev.saved
          /\ parse_from_rfc3339(Persisted.next_run_at).val >
               parse_from_rfc3339(ev.orig.next_run_at).val

\* A due tick on two entries has just failed at the provider request, two
\* days after the due time.
C35_Witness ==
    /\ ev.op = "tick" /\ ev.res = "ProviderErr"
    /\ Len(ev.orig.history) = 2
    /\ file = FullFile(ev.orig)
    /\ parse_from_rfc3339(Persisted.next_run_at).val < now

\* C36: whatever retention_days is, a Next, Prev, New, set or tick that
\* saves leaves a history at least as long as the one it loaded, and no step
\* of any of them takes a file out of the wallpapers directory.
C36_NavigationNeverPrunes ==
    /\ []((ev.saved /\ ev.res = "Ok") =>
            /\ file.st = "full"
            /\ Len(Persisted.history) >= Len(ev.orig.history)
            /\ SubSeq(Persisted.history, 1, Len(ev.orig.history)) = ev.orig.history)
    /\ [][\A f \in Filenames : files[f] # "none" => files'[f] # "none"]_vars

\* With a retention of 0 a Next at the end of a one-entry history has just
\* fetched a second entry; both entries are in wallp.json and the file of
\* the first is still there.
C36_Witness ==
    /\ ev.op = "next" /\ ev.called /\ ev.res = "Ok"
    /\ ev.orig.retention_days = Some(0)
    /\ Len(ev.orig.history) = 1
    /\ file.st = "full" /\ Len(Persisted.history) = 2
    /\ Persisted.history[1].filename # Persisted.history[2].filename
    /\ files[Persisted.history[1].filename] = "full"

\* The tick that set ev loaded a record with is_running false, an access
\* key and a next_run_at that has passed.
C37_DueWhileNotRunning ==
    /\ ev.op = "tick" /\ ev.res # "LoadErr"
    /\ ~ev.orig.is_running
    /\ ev.orig.unsplash_access_key # ""
    /\ parse_from_rfc3339(ev.orig.next_run_at).ok
    /\ parse_from_rfc3339(ev.orig.next_run_at).val <= now

\* C37: a due tick with an access key does not return without calling
\* manager::next because is_running is false: it ends with a result of
\* manager::next, having applied a wallpaper or asked the provider when that
\* result is Ok; and no operation changes is_running, in its record or in
\* wallp.json.
C37_IsRunningIgnored ==
    /\ C37_DueWhileNotRunning =>
          /\ ev.res = "Ok" => (ev.saved /\ (ev.called \/ ev.applied # NoneOpt))
          /\ ev.res # "ParseErr"
    /\ \A p \in Procs : thread[p].local.is_running = thread[p].orig.is_running
    /\ ev.data.is_running = ev.orig.is_running
    /\ (ev.saved /\ ev.res = "Ok") => Persisted.is_running = ev.orig.is_running

\* A tick on a record with is_running false has just fetched and saved a new
\* entry; is_running is still false in wallp.json.
C37_Witness ==
    /\ C37_DueWhileNotRunning
    /\ ev.res = "Ok" /\ ev.called /\ ev.saved
    /\ Len(ev.data.history) = Len(ev.orig.history) + 1
    /\ file = FullFile(ev.data)
    /\ ~Persisted.is_running

====
